---- MODULE Spec2Model ----
(***************************************************************************)
(* The interrupt simulator of kernel/irq/irq_sim.c: a bitmap of pending    *)
(* simulated lines, producers calling irq_sim_fire() from process context, *)
(* the irq_work handler irq_sim_handle_irq() that drains the bitmap, the   *)
(* irq_chip mask/unmask callbacks, the domain map callback and the         *)
(* teardown irq_sim_free().                                                *)
(*                                                                         *)
(* Every statement of the C code that reads or writes shared state is one  *)
(* step of the model, so that the interleavings of a fire with a running   *)
(* drain, and of the teardown with a running drain, are all explored.      *)
(***************************************************************************)
EXTENDS Integers, Sequences, FiniteSets, TLC

\* ------------------------------------------------------------------ bounds
\* num_irqs given to irq_sim_new(): the lines have hwirq 0 .. NumIrqs-1.
NumIrqs == 2
\* Contexts that may be inside irq_sim_fire() at the same time.
NumProducers == 2
\* Total number of irq_sim_fire() calls in one behaviour.
MaxFires == 2

\* include/linux/irq.h: the trigger type bits tested by irq_sim_set_type().
IRQ_TYPE_NONE == 0
IRQ_TYPE_EDGE_BOTH == 3
\* The width of the trigger field of irq_data written by irqd_set_trigger_type().
IRQD_TRIGGER_MASK == 15
\* The `type` arguments tried on irq_sim_set_type(): none, rising, falling,
\* both, level-high, rising with level-high, level-low.
TriggerTypes == {0, 1, 2, 3, 4, 5, 8}

Lines == 0 .. (NumIrqs - 1)
Producers == 1 .. NumProducers

VARIABLES
    mapped,       \* hwirqs with a mapping (an irq_sim_irq_ctx and a virq)
    enabled,      \* irq_sim_irq_ctx.enabled, per hwirq
    pending,      \* irq_sim_work_ctx.pending: the set bits of the bitmap
    work_flags,   \* irq_work.flags of work_ctx.work: subset of {PENDING, BUSY}
    hpc,          \* where irq_sim_handle_irq() stands
    offset,       \* irq_sim_handle_irq()'s local `offset`
    irqnum,       \* irq_sim_handle_irq()'s local `irqnum`
    fpc,          \* per producer: where its irq_sim_fire() call stands
    fline,        \* per producer: the hwirq of the virq it fires
    free_pc,      \* where irq_sim_free() stands
    free_i,       \* irq_sim_free()'s loop variable `i`
    \* ---- history (written, never read by the program's steps)
    fobs,         \* per producer: the value ctx->enabled had when it read it
    calls,        \* number of irq_sim_fire() calls made so far
    seen,         \* per line: fire calls that found the line enabled
    rises,        \* per line: times the pending bit went from 0 to 1
    delivered,    \* per line: handle_simple_irq() invocations for its virq
    firedEn,      \* lines latched by a fire that found them enabled, not yet taken
    batch,        \* firedEn when the running drain started
    drainLog,     \* lines delivered by the running drain, in order
    fireInDrain,  \* a set_bit() landed while the running drain was in its loop
    everUnmasked, \* lines irq_sim_irqunmask() was ever called for
    spurious,     \* handle_simple_irq() was invoked for something that is no line
    oopsed,       \* the drain dereferenced a NULL / freed descriptor
    lateMasked,   \* the running drain delivered a line whose enabled flag was false
    queued,       \* runs of the work enqueued by irq_work_queue() and not yet begun
    lateDeliv,    \* a line was delivered after irq_sim_free() had been entered
    refired,      \* lines latched again, in this drain, between the clear_bit()
                  \* for them and the end of their handle_simple_irq()
    \* ---- the per-line contexts on the heap
    ctx_mem,      \* per hwirq: its irq_sim_irq_ctx ("none", "live", "freed", "double_free")
    \* ---- irq_sim_set_type()
    trigger_type, \* per hwirq: the trigger type bits stored in its irq_data
    st,           \* the irq_sim_set_type() call being made: <<type, result>>, or <<>>
    \* ---- irq_sim_new() and devm_irq_sim_new()
    num_irqs,     \* the argument of the constructor call
    new_pc,       \* where irq_sim_new() stands
    got_sim,      \* the struct irq_sim of the call: "no", "held" or "released"
    got_bitmap,   \* the pending bitmap of the call
    got_domain,   \* the irq_domain of the call
    new_ret,      \* what irq_sim_new() returned ("none" before it returns)
    devm_pc,      \* where devm_irq_sim_new() stands ("off": the plain constructor)
    dr_mem,       \* the struct irq_sim_devres: "no", "held" or "released"
    dr_sim,       \* the value stored in dr->sim
    devres,       \* the release actions registered with the device
    devm_ret,     \* what devm_irq_sim_new() returned ("none" before it returns)
    free_calls    \* number of irq_sim_free() calls made for the simulator

prog == <<mapped, enabled, pending, work_flags, hpc, offset, irqnum,
          fpc, fline, free_pc, free_i>>
hist == <<fobs, calls, seen, rises, delivered, firedEn, batch, drainLog,
          fireInDrain, everUnmasked, spurious, oopsed, lateMasked, queued,
          lateDeliv, refired>>
cfg == <<trigger_type, st>>
ctor == <<num_irqs, new_pc, got_sim, got_bitmap, got_domain, new_ret,
          devm_pc, dr_mem, dr_sim, devres, devm_ret, free_calls>>
vars == <<prog, hist, ctx_mem, cfg, ctor>>

\* ----------------------------------------------------------- bitmap helpers
Min(S) == CHOOSE x \in S : \A y \in S : x <= y

\* bitmap_empty(map, nbits): no bit below nbits is set.
bitmap_empty(map, nbits) == \A b \in map : b >= nbits

\* Variant of the search that looks for the lowest clear bit, as
\* find_next_zero_bit() does.
find_next_zero_bit(map, size, start) ==
    LET hits == {b \in start .. (size - 1) : b \notin map}
    IN  IF hits = {} THEN size ELSE Min(hits)

\* find_next_bit(map, size, start): the lowest set bit b with start <= b < size,
\* or size when there is none.
find_next_bit(map, size, start) ==
    LET hits == {b \in map : b >= start /\ b < size}
    IN  IF hits = {} THEN size ELSE Min(hits)

set_bit(nr, map) == map \cup {nr}
clear_bit(nr, map) == map \ {nr}

\* The virq under which hwirq l is known once mapped; 0 is "no mapping".
VirqOf(l) == l + 1

\* irq_find_mapping(domain, hwirq) on a live linear domain: the virq of a mapped
\* hwirq below the domain's size, 0 for anything else.
irq_find_mapping(hw) == IF hw \in mapped THEN VirqOf(hw) ELSE 0

\* ascending enumeration of a set of lines
RECURSIVE SortedSeq(_)
SortedSeq(S) == IF S = {} THEN <<>>
                ELSE <<Min(S)>> \o SortedSeq(S \ {Min(S)})

\* ------------------------------------------------------------- irq_work
\* irq_work_queue(): claim the work; a work whose PENDING flag is set is
\* already queued and is not queued again.
irq_work_queue(flags) ==
    IF "PENDING" \in flags THEN flags ELSE flags \cup {"PENDING", "BUSY"}

\* Variant of the dispatch that lets a newly queued run begin while the
\* handler of an earlier run is still executing.
irq_work_may_run_concurrently(flags, pc) == "PENDING" \in flags

\* A queued work is picked up by the one context that runs the works: a run
\* begins when the work is pending and its handler is not executing.
irq_work_may_run(flags, pc) == "PENDING" \in flags /\ pc = "idle"

\* Running a queued work: PENDING is cleared before the handler is called, BUSY
\* stays set while it runs.
irq_work_run_begin(flags) == flags \ {"PENDING"}

\* Variant of the completion that clears both flags, dropping a claim made
\* while the handler ran.
irq_work_run_end_drops_claim(flags) == {}

\* After the handler: BUSY is cleared unless the work was claimed again while
\* the handler ran.
irq_work_run_end(flags) == IF "PENDING" \in flags THEN flags ELSE {}

\* irq_work_sync() returns once the work is neither queued nor running.
irq_work_sync(flags) == "BUSY" \notin flags

\* What irq_sim_free() has torn down so far.
DomainRemoved == free_pc \in {"sync", "bitmap_free", "kfree", "done"}
BitmapFreed == free_pc \in {"kfree", "done"}
SimFreed == free_pc = "done"
Alive == free_pc = "idle"

\* ------------------------------------------------------------------ Init
\* The simulator as irq_sim_new(NumIrqs) returns it, with no line mapped yet.
Constructed ==
    /\ num_irqs = NumIrqs
    /\ new_pc = "done"
    /\ got_sim = "held"
    /\ got_bitmap = "held"
    /\ got_domain = "held"
    /\ new_ret = "sim"
    /\ devm_pc = "off"
    /\ dr_mem = "no"
    /\ dr_sim = "none"
    /\ devres = {}
    /\ devm_ret = "none"
    /\ free_calls = 0

\* The run-time state of a simulator that was just constructed.
Fresh ==
    /\ mapped = {}
    /\ enabled = [l \in Lines |-> FALSE]
    /\ pending = {}
    /\ work_flags = {}
    /\ hpc = "idle"
    /\ offset = 0
    /\ irqnum = 0
    /\ fpc = [p \in Producers |-> "idle"]
    /\ fline = [p \in Producers |-> 0]
    /\ free_pc = "idle"
    /\ free_i = 0
    /\ fobs = [p \in Producers |-> FALSE]
    /\ calls = 0
    /\ seen = [l \in Lines |-> 0]
    /\ rises = [l \in Lines |-> 0]
    /\ delivered = [l \in Lines |-> 0]
    /\ firedEn = {}
    /\ batch = {}
    /\ drainLog = <<>>
    /\ fireInDrain = FALSE
    /\ everUnmasked = {}
    /\ spurious = FALSE
    /\ oopsed = FALSE
    /\ lateMasked = FALSE
    /\ queued = 0
    /\ lateDeliv = FALSE
    /\ refired = {}
    /\ ctx_mem = [l \in Lines |-> "none"]
    /\ trigger_type = [l \in Lines |-> IRQ_TYPE_NONE]
    /\ st = <<>>

Init == Fresh /\ Constructed

\* --------------------------------------------------------- line registry
\* Variant of irq_sim_domain_map() that leaves a new line enabled.
irq_sim_domain_map_enabled(l) ==
    /\ Alive
    /\ l \notin mapped
    /\ mapped' = mapped \cup {l}
    /\ enabled' = [enabled EXCEPT ![l] = TRUE]
    /\ ctx_mem' = [ctx_mem EXCEPT ![l] = "live"]
    /\ UNCHANGED <<pending, work_flags, hpc, offset, irqnum, fpc, fline,
                   free_pc, free_i, hist, cfg, ctor>>

\* irq_sim_domain_map(): the consumer maps hwirq l; the context is kzalloc'ed,
\* so the line starts with enabled = false.
irq_sim_domain_map(l) ==
    /\ Alive
    /\ l \notin mapped
    /\ mapped' = mapped \cup {l}
    /\ enabled' = [enabled EXCEPT ![l] = FALSE]
    /\ ctx_mem' = [ctx_mem EXCEPT ![l] = "live"]
    /\ UNCHANGED <<pending, work_flags, hpc, offset, irqnum, fpc, fline,
                   free_pc, free_i, hist, cfg, ctor>>

\* Variant of irq_sim_irqmask() that also withdraws the line's pending bit.
irq_sim_irqmask_drops_pending(l) ==
    /\ Alive
    /\ l \in mapped
    /\ enabled' = [enabled EXCEPT ![l] = FALSE]
    /\ pending' = clear_bit(l, pending)
    /\ UNCHANGED <<mapped, work_flags, hpc, offset, irqnum, fpc, fline,
                   free_pc, free_i, hist, ctx_mem, cfg, ctor>>

\* irq_sim_irqmask(): clears the enabled flag of the line, and nothing else.
irq_sim_irqmask(l) ==
    /\ Alive
    /\ l \in mapped
    /\ enabled' = [enabled EXCEPT ![l] = FALSE]
    /\ UNCHANGED <<mapped, pending, work_flags, hpc, offset, irqnum, fpc,
                   fline, free_pc, free_i, hist, ctx_mem, cfg, ctor>>

\* Variant of irq_sim_irqunmask() that also queues the work.
irq_sim_irqunmask_kicks(l) ==
    /\ Alive
    /\ l \in mapped
    /\ enabled' = [enabled EXCEPT ![l] = TRUE]
    /\ everUnmasked' = everUnmasked \cup {l}
    /\ work_flags' = irq_work_queue(work_flags)
    /\ queued' = IF "PENDING" \in work_flags THEN queued ELSE queued + 1
    /\ UNCHANGED <<mapped, pending, hpc, offset, irqnum, fpc, fline, free_pc,
                   free_i, fobs, calls, seen, rises, delivered, firedEn, batch,
                   drainLog, fireInDrain, spurious, oopsed, lateMasked,
                   lateDeliv, refired, ctx_mem, cfg, ctor>>

\* irq_sim_irqunmask(): sets the enabled flag of the line, and nothing else.
irq_sim_irqunmask(l) ==
    /\ Alive
    /\ l \in mapped
    /\ enabled' = [enabled EXCEPT ![l] = TRUE]
    /\ everUnmasked' = everUnmasked \cup {l}
    /\ UNCHANGED <<mapped, pending, work_flags, hpc, offset, irqnum, fpc,
                   fline, free_pc, free_i, fobs, calls, seen, rises, delivered,
                   firedEn, batch, drainLog, fireInDrain, spurious, oopsed,
                   lateMasked, queued, lateDeliv, refired, ctx_mem, cfg, ctor>>

\* ---------------------------------------------------------- trigger type
\* type & ~IRQ_TYPE_EDGE_BOTH, for the mask 2^k - 1 that IRQ_TYPE_EDGE_BOTH is.
AndNotEdgeBoth(type) == type - (type % (IRQ_TYPE_EDGE_BOTH + 1))

\* irqd_set_trigger_type(): the trigger field takes the low bits of the type.
irqd_set_trigger_type(type) == type % (IRQD_TRIGGER_MASK + 1)

\* Variant of irq_sim_set_type() that stores the type before it validates it.
irq_sim_set_type_store_first(l, type) ==
    /\ Alive
    /\ l \in mapped
    /\ st = <<>>
    /\ trigger_type' = [trigger_type EXCEPT ![l] = irqd_set_trigger_type(type)]
    /\ st' = <<type, IF AndNotEdgeBoth(type) # 0 THEN "EINVAL" ELSE "OK">>
    /\ UNCHANGED <<prog, hist, ctx_mem, ctor>>

\* irq_sim_set_type(), lines 46-55, called for the irq_data of mapped line l.
irq_sim_set_type(l, type) ==
    /\ Alive
    /\ l \in mapped
    /\ st = <<>>
    /\ IF AndNotEdgeBoth(type) # 0
          THEN /\ st' = <<type, "EINVAL">>
               /\ UNCHANGED trigger_type
          ELSE /\ trigger_type' =
                     [trigger_type EXCEPT ![l] = irqd_set_trigger_type(type)]
               /\ st' = <<type, "OK">>
    /\ UNCHANGED <<prog, hist, ctx_mem, ctor>>

\* The caller of irq_sim_set_type() has taken the result.
irq_sim_set_type_return ==
    /\ st # <<>>
    /\ st' = <<>>
    /\ UNCHANGED <<prog, hist, ctx_mem, trigger_type, ctor>>

\* ------------------------------------------------------------------ fire
InLoop == hpc \in {"check", "find", "clear", "map", "handle"}

\* Variant of the first step of irq_sim_fire() that does not test ctx->enabled.
irq_sim_fire_check_unconditional(p, l) ==
    /\ Alive
    /\ fpc[p] = "idle"
    /\ calls < MaxFires
    /\ l \in mapped
    /\ calls' = calls + 1
    /\ fobs' = [fobs EXCEPT ![p] = enabled[l]]
    /\ seen' = [seen EXCEPT ![l] = IF enabled[l] THEN @ + 1 ELSE @]
    /\ fline' = [fline EXCEPT ![p] = l]
    /\ fpc' = [fpc EXCEPT ![p] = "set"]
    /\ UNCHANGED <<mapped, enabled, pending, work_flags, hpc, offset, irqnum,
                   free_pc, free_i, rises, delivered, firedEn, batch, drainLog,
                   fireInDrain, everUnmasked, spurious, oopsed, lateMasked,
                   queued, lateDeliv, refired, ctx_mem, cfg, ctor>>

\* irq_sim_fire(), lines 222-225: look the line up and read ctx->enabled; a
\* disabled line makes the call return at once.
irq_sim_fire_check(p, l) ==
    /\ Alive
    /\ fpc[p] = "idle"
    /\ calls < MaxFires
    /\ l \in mapped
    /\ calls' = calls + 1
    /\ fobs' = [fobs EXCEPT ![p] = enabled[l]]
    /\ seen' = [seen EXCEPT ![l] = IF enabled[l] THEN @ + 1 ELSE @]
    /\ fline' = [fline EXCEPT ![p] = IF enabled[l] THEN l ELSE 0]
    /\ fpc' = [fpc EXCEPT ![p] = IF enabled[l] THEN "set" ELSE "idle"]
    /\ UNCHANGED <<mapped, enabled, pending, work_flags, hpc, offset, irqnum,
                   free_pc, free_i, rises, delivered, firedEn, batch, drainLog,
                   fireInDrain, everUnmasked, spurious, oopsed, lateMasked,
                   queued, lateDeliv, refired, ctx_mem, cfg, ctor>>

\* Variant of the set_bit() that indexes the bitmap by the virq instead of by
\* irqd_to_hwirq().
irq_sim_fire_set_by_virq(p) ==
    /\ fpc[p] = "set"
    /\ pending' = set_bit(VirqOf(fline[p]), pending)
    /\ fpc' = [fpc EXCEPT ![p] = "queue"]
    /\ rises' = [rises EXCEPT ![fline[p]] =
                    IF fline[p] \in pending THEN @ ELSE @ + 1]
    /\ firedEn' = IF fobs[p] THEN firedEn \cup {fline[p]} ELSE firedEn
    /\ fireInDrain' = (fireInDrain \/ InLoop)
    /\ refired' = IF hpc \in {"map", "handle"} /\ offset = fline[p]
                     THEN refired \cup {fline[p]}
                     ELSE refired
    /\ UNCHANGED <<mapped, enabled, work_flags, hpc, offset, irqnum, fline,
                   free_pc, free_i, fobs, calls, seen, delivered, batch,
                   drainLog, everUnmasked, spurious, oopsed, lateMasked,
                   queued, lateDeliv, ctx_mem, cfg, ctor>>

\* Variant of the latch that stores the line's bit with a plain assignment of
\* the bitmap word instead of the atomic set_bit().
irq_sim_fire_set_overwrites(p) ==
    /\ fpc[p] = "set"
    /\ pending' = {fline[p]}
    /\ fpc' = [fpc EXCEPT ![p] = "queue"]
    /\ rises' = [rises EXCEPT ![fline[p]] =
                    IF fline[p] \in pending THEN @ ELSE @ + 1]
    /\ firedEn' = IF fobs[p] THEN firedEn \cup {fline[p]} ELSE firedEn
    /\ fireInDrain' = (fireInDrain \/ InLoop)
    /\ refired' = IF hpc \in {"map", "handle"} /\ offset = fline[p]
                     THEN refired \cup {fline[p]}
                     ELSE refired
    /\ UNCHANGED <<mapped, enabled, work_flags, hpc, offset, irqnum, fline,
                   free_pc, free_i, fobs, calls, seen, delivered, batch,
                   drainLog, everUnmasked, spurious, oopsed, lateMasked,
                   queued, lateDeliv, ctx_mem, cfg, ctor>>

\* irq_sim_fire(), line 226: set_bit(hwirq, pending).
irq_sim_fire_set(p) ==
    /\ fpc[p] = "set"
    /\ pending' = set_bit(fline[p], pending)
    /\ fpc' = [fpc EXCEPT ![p] = "queue"]
    /\ rises' = [rises EXCEPT ![fline[p]] =
                    IF fline[p] \in pending THEN @ ELSE @ + 1]
    /\ firedEn' = IF fobs[p] THEN firedEn \cup {fline[p]} ELSE firedEn
    /\ fireInDrain' = (fireInDrain \/ InLoop)
    /\ refired' = IF hpc \in {"map", "handle"} /\ offset = fline[p]
                     THEN refired \cup {fline[p]}
                     ELSE refired
    /\ UNCHANGED <<mapped, enabled, work_flags, hpc, offset, irqnum, fline,
                   free_pc, free_i, fobs, calls, seen, delivered, batch,
                   drainLog, everUnmasked, spurious, oopsed, lateMasked,
                   queued, lateDeliv, ctx_mem, cfg, ctor>>

\* Variant of the last step of irq_sim_fire() that initialises the work anew
\* (init_irq_work) before it queues it, instead of once in irq_sim_new().
irq_sim_fire_queue_reinit(p) ==
    /\ fpc[p] = "queue"
    /\ work_flags' = irq_work_queue({})
    /\ fpc' = [fpc EXCEPT ![p] = "idle"]
    /\ fline' = [fline EXCEPT ![p] = 0]
    /\ fobs' = [fobs EXCEPT ![p] = FALSE]
    /\ queued' = queued + 1
    /\ UNCHANGED <<mapped, enabled, pending, hpc, offset, irqnum, free_pc,
                   free_i, calls, seen, rises, delivered, firedEn, batch,
                   drainLog, fireInDrain, everUnmasked, spurious, oopsed,
                   lateMasked, lateDeliv, refired, ctx_mem, cfg, ctor>>

\* irq_sim_fire(), line 227: irq_work_queue(&work_ctx->work).  The work is
\* enqueued when the call claims it, that is when it was not already pending.
irq_sim_fire_queue(p) ==
    /\ fpc[p] = "queue"
    /\ work_flags' = irq_work_queue(work_flags)
    /\ fpc' = [fpc EXCEPT ![p] = "idle"]
    /\ fline' = [fline EXCEPT ![p] = 0]
    /\ fobs' = [fobs EXCEPT ![p] = FALSE]
    /\ queued' = IF "PENDING" \in work_flags THEN queued ELSE queued + 1
    /\ UNCHANGED <<mapped, enabled, pending, hpc, offset, irqnum, free_pc,
                   free_i, calls, seen, rises, delivered, firedEn, batch,
                   drainLog, fireInDrain, everUnmasked, spurious, oopsed,
                   lateMasked, lateDeliv, refired, ctx_mem, cfg, ctor>>

\* irq_sim_fire() called with a virq that has no mapping in the simulator's
\* domain.  There is no test of irqd or ctx: if irq_get_irq_data() gives NULL,
\* or the irq_data has no chip data, line 225 dereferences NULL; if the virq
\* belongs to something else, its chip data is read as if it were a line
\* context, and depending on what is found there the call returns or goes on
\* to set_bit() and irq_work_queue() through pointers that are no simulator's.
irq_sim_fire_unregistered(p, l) ==
    /\ Alive
    /\ fpc[p] = "idle"
    /\ calls < MaxFires
    /\ l \notin mapped
    /\ calls' = calls + 1
    /\ \E outcome \in {"oops", "stray", "idle"} :
          fpc' = [fpc EXCEPT ![p] = outcome]
    /\ UNCHANGED <<mapped, enabled, pending, work_flags, hpc, offset, irqnum,
                   fline, free_pc, free_i, fobs, seen, rises, delivered,
                   firedEn, batch, drainLog, fireInDrain, everUnmasked,
                   spurious, oopsed, lateMasked, queued, lateDeliv, refired,
                   ctx_mem,
                   cfg, ctor>>

\* ----------------------------------------------------------------- drain
\* The queued work is run: PENDING is cleared (BUSY stays) and the handler is
\* entered with offset = 0.  One execution context runs the work at a time.
irq_sim_handle_irq_enter ==
    /\ irq_work_may_run(work_flags, hpc)
    /\ work_flags' = irq_work_run_begin(work_flags)
    /\ hpc' = "check"
    /\ offset' = 0
    /\ batch' = firedEn
    /\ drainLog' = <<>>
    /\ fireInDrain' = FALSE
    /\ lateMasked' = FALSE
    /\ queued' = queued - 1
    /\ refired' = {}
    /\ UNCHANGED <<mapped, enabled, pending, irqnum, fpc, fline, free_pc,
                   free_i, fobs, calls, seen, rises, delivered, firedEn,
                   everUnmasked, spurious, oopsed, lateDeliv, ctx_mem, cfg,
                   ctor>>

\* line 74: while (!bitmap_empty(work_ctx->pending, sim->irq_count))
irq_sim_handle_irq_check ==
    /\ hpc = "check"
    /\ hpc' = IF bitmap_empty(pending, NumIrqs) THEN "ret" ELSE "find"
    /\ UNCHANGED <<mapped, enabled, pending, work_flags, offset, irqnum, fpc,
                   fline, free_pc, free_i, hist, ctx_mem, cfg, ctor>>

\* Variant of the search that restarts from bit 0 in every iteration.
irq_sim_handle_irq_find_from_zero ==
    /\ hpc = "find"
    /\ offset' = find_next_bit(pending, NumIrqs, 0)
    /\ hpc' = "clear"
    /\ UNCHANGED <<mapped, enabled, pending, work_flags, irqnum, fpc, fline,
                   free_pc, free_i, hist, ctx_mem, cfg, ctor>>

\* lines 75-76: offset = find_next_bit(pending, irq_count, offset)
irq_sim_handle_irq_find ==
    /\ hpc = "find"
    /\ offset' = find_next_bit(pending, NumIrqs, offset)
    /\ hpc' = "clear"
    /\ UNCHANGED <<mapped, enabled, pending, work_flags, irqnum, fpc, fline,
                   free_pc, free_i, hist, ctx_mem, cfg, ctor>>

\* Variant of the loop body without the clear_bit().
irq_sim_handle_irq_clear_skipped ==
    /\ hpc = "clear"
    /\ hpc' = "map"
    /\ UNCHANGED <<mapped, enabled, pending, work_flags, offset, irqnum, fpc,
                   fline, free_pc, free_i, hist, ctx_mem, cfg, ctor>>

\* line 77: clear_bit(offset, pending)
irq_sim_handle_irq_clear ==
    /\ hpc = "clear"
    /\ pending' = clear_bit(offset, pending)
    /\ firedEn' = firedEn \ {offset}
    /\ hpc' = "map"
    /\ UNCHANGED <<mapped, enabled, work_flags, offset, irqnum, fpc, fline,
                   free_pc, free_i, fobs, calls, seen, rises, delivered, batch,
                   drainLog, fireInDrain, everUnmasked, spurious, oopsed,
                   lateMasked, queued, lateDeliv, refired, ctx_mem, cfg, ctor>>

\* Variant of the lookup that is off by one: irq_find_mapping(domain, offset + 1).
irq_sim_handle_irq_map_off_by_one ==
    /\ hpc = "map"
    /\ IF DomainRemoved
          THEN irqnum' \in 0 .. NumIrqs
          ELSE irqnum' = irq_find_mapping(offset + 1)
    /\ hpc' = "handle"
    /\ UNCHANGED <<mapped, enabled, pending, work_flags, offset, fpc, fline,
                   free_pc, free_i, hist, ctx_mem, cfg, ctor>>

\* line 78: irqnum = irq_find_mapping(sim->domain, offset).  Once
\* irq_domain_remove() has freed the domain the read is of freed memory: the
\* result is any value a stale or reused revmap may hold (0 included).
irq_sim_handle_irq_map ==
    /\ hpc = "map"
    /\ IF DomainRemoved
          THEN irqnum' \in 0 .. NumIrqs
          ELSE irqnum' = irq_find_mapping(offset)
    /\ hpc' = "handle"
    /\ UNCHANGED <<mapped, enabled, pending, work_flags, offset, fpc, fline,
                   free_pc, free_i, hist, ctx_mem, cfg, ctor>>

\* Variant of the delivery that clears the line's bit again once
\* handle_simple_irq() has returned.
irq_sim_handle_irq_handle_then_clear ==
    /\ hpc = "handle"
    /\ IF irqnum # 0 /\ (irqnum - 1) \in mapped
          THEN /\ delivered' = [delivered EXCEPT ![irqnum - 1] = @ + 1]
               /\ drainLog' = Append(drainLog, irqnum - 1)
               /\ lateMasked' = (lateMasked \/ ~enabled[irqnum - 1])
               /\ lateDeliv' = (lateDeliv \/ ~Alive)
               /\ pending' = clear_bit(irqnum - 1, pending)
               /\ hpc' = "check"
               /\ UNCHANGED <<spurious, oopsed>>
          ELSE /\ \/ /\ oopsed' = TRUE
                     /\ hpc' = "oops"
                     /\ UNCHANGED spurious
                  \/ /\ spurious' = TRUE
                     /\ hpc' = "check"
                     /\ UNCHANGED oopsed
               /\ UNCHANGED <<delivered, drainLog, lateMasked, lateDeliv,
                              pending>>
    /\ UNCHANGED <<mapped, enabled, work_flags, offset, irqnum, fpc,
                   fline, free_pc, free_i, fobs, calls, seen, rises, firedEn,
                   batch, fireInDrain, everUnmasked, queued, refired, ctx_mem,
                   cfg, ctor>>

\* line 79: handle_simple_irq(irq_to_desc(irqnum)).  For the virq of a line that
\* is still mapped this is the delivery.  For virq 0, or a virq whose
\* descriptor was freed by irq_dispose_mapping(), irq_to_desc() gives NULL
\* (sparse irqs: the handler dereferences it) or an unrelated descriptor.
irq_sim_handle_irq_handle ==
    /\ hpc = "handle"
    /\ IF irqnum # 0 /\ (irqnum - 1) \in mapped
          THEN /\ delivered' = [delivered EXCEPT ![irqnum - 1] = @ + 1]
               /\ drainLog' = Append(drainLog, irqnum - 1)
               /\ lateMasked' = (lateMasked \/ ~enabled[irqnum - 1])
               /\ lateDeliv' = (lateDeliv \/ ~Alive)
               /\ hpc' = "check"
               /\ UNCHANGED <<spurious, oopsed>>
          ELSE /\ \/ /\ oopsed' = TRUE
                     /\ hpc' = "oops"
                     /\ UNCHANGED spurious
                  \/ /\ spurious' = TRUE
                     /\ hpc' = "check"
                     /\ UNCHANGED oopsed
               /\ UNCHANGED <<delivered, drainLog, lateMasked, lateDeliv>>
    /\ UNCHANGED <<mapped, enabled, pending, work_flags, offset, irqnum, fpc,
                   fline, free_pc, free_i, fobs, calls, seen, rises, firedEn,
                   batch, fireInDrain, everUnmasked, queued, refired, ctx_mem,
                   cfg, ctor>>

\* line 81, and the work's completion: BUSY is cleared unless the work was
\* claimed again while the handler ran.
irq_sim_handle_irq_return ==
    /\ hpc = "ret"
    /\ work_flags' = irq_work_run_end(work_flags)
    /\ hpc' = "idle"
    /\ offset' = 0
    /\ irqnum' = 0
    /\ batch' = {}
    /\ drainLog' = <<>>
    /\ fireInDrain' = FALSE
    /\ lateMasked' = FALSE
    /\ refired' = {}
    /\ UNCHANGED <<mapped, enabled, pending, fpc, fline, free_pc, free_i, fobs,
                   calls, seen, rises, delivered, firedEn, everUnmasked,
                   spurious, oopsed, queued, lateDeliv, ctx_mem, cfg, ctor>>

\* -------------------------------------------------------------- teardown
\* irq_sim_free() is called once every irq_sim_fire() call has returned.
irq_sim_free_enter ==
    /\ free_pc = "idle"
    /\ \A p \in Producers : fpc[p] = "idle"
    /\ free_pc' = "dispose"
    /\ free_i' = 0
    /\ UNCHANGED <<mapped, enabled, pending, work_flags, hpc, offset, irqnum,
                   fpc, fline, hist, ctx_mem, cfg, ctor>>

\* irq_sim_domain_unmap(), called back by irq_dispose_mapping(): kfree() of the
\* line's context.
irq_sim_domain_unmap(mem, l) ==
    [mem EXCEPT ![l] = IF @ = "live" THEN "freed" ELSE "double_free"]

\* Variant of the loop of irq_sim_free() that stops one line short
\* (i < irq_count - 1).
irq_sim_free_remove_one_short ==
    /\ free_pc = "dispose"
    /\ free_i >= NumIrqs - 1
    /\ free_pc' = "sync"
    /\ UNCHANGED <<mapped, enabled, pending, work_flags, hpc, offset, irqnum,
                   fpc, fline, free_i, hist, ctx_mem, cfg, ctor>>

\* lines 163-167: one iteration of the loop, disposing the mapping of hwirq i:
\* if (irq) irq_dispose_mapping(irq), which calls irq_sim_domain_unmap().
irq_sim_free_dispose ==
    /\ free_pc = "dispose"
    /\ free_i < NumIrqs
    /\ mapped' = mapped \ {free_i}
    /\ ctx_mem' = IF irq_find_mapping(free_i) # 0
                     THEN irq_sim_domain_unmap(ctx_mem, free_i)
                     ELSE ctx_mem
    /\ free_i' = free_i + 1
    /\ UNCHANGED <<enabled, pending, work_flags, hpc, offset, irqnum, fpc,
                   fline, free_pc, hist, cfg, ctor>>

\* line 169: irq_domain_remove(sim->domain)
irq_sim_free_remove ==
    /\ free_pc = "dispose"
    /\ free_i >= NumIrqs
    /\ free_pc' = "sync"
    /\ UNCHANGED <<mapped, enabled, pending, work_flags, hpc, offset, irqnum,
                   fpc, fline, free_i, hist, ctx_mem, cfg, ctor>>

\* Variant of irq_sim_free() without the wait of irq_work_sync().
irq_sim_free_sync_no_wait ==
    /\ free_pc = "sync"
    /\ free_pc' = "bitmap_free"
    /\ UNCHANGED <<mapped, enabled, pending, work_flags, hpc, offset, irqnum,
                   fpc, fline, free_i, hist, ctx_mem, cfg, ctor>>

\* line 170: irq_work_sync(): spins until the work's BUSY flag is clear.
irq_sim_free_sync ==
    /\ free_pc = "sync"
    /\ irq_work_sync(work_flags)
    /\ free_pc' = "bitmap_free"
    /\ UNCHANGED <<mapped, enabled, pending, work_flags, hpc, offset, irqnum,
                   fpc, fline, free_i, hist, ctx_mem, cfg, ctor>>

\* line 171: bitmap_free(sim->work_ctx.pending)
irq_sim_free_bitmap ==
    /\ free_pc = "bitmap_free"
    /\ free_pc' = "kfree"
    /\ UNCHANGED <<mapped, enabled, pending, work_flags, hpc, offset, irqnum,
                   fpc, fline, free_i, hist, ctx_mem, cfg, ctor>>

\* line 172: kfree(sim), and the return.
irq_sim_free_kfree ==
    /\ free_pc = "kfree"
    /\ free_pc' = "done"
    /\ UNCHANGED <<mapped, enabled, pending, work_flags, hpc, offset, irqnum,
                   fpc, fline, free_i, hist, ctx_mem, cfg, ctor>>

\* ------------------------------------------------------------------ Next
Drain ==
    \/ irq_sim_handle_irq_enter
    \/ irq_sim_handle_irq_check
    \/ irq_sim_handle_irq_find
    \/ irq_sim_handle_irq_clear
    \/ irq_sim_handle_irq_map
    \/ irq_sim_handle_irq_handle
    \/ irq_sim_handle_irq_return

Teardown ==
    \/ irq_sim_free_dispose
    \/ irq_sim_free_remove
    \/ irq_sim_free_sync
    \/ irq_sim_free_bitmap
    \/ irq_sim_free_kfree

Next ==
    \/ \E l \in Lines : irq_sim_domain_map(l)
    \/ \E l \in Lines : irq_sim_irqmask(l)
    \/ \E l \in Lines : irq_sim_irqunmask(l)
    \/ \E p \in Producers, l \in Lines : irq_sim_fire_check(p, l)
    \/ \E p \in Producers : irq_sim_fire_set(p)
    \/ \E p \in Producers : irq_sim_fire_queue(p)
    \/ Drain
    \/ irq_sim_free_enter
    \/ Teardown

Spec == Init /\ [][Next]_vars

\* The simulator with producers that may also fire a virq that is not mapped.
StrayNext ==
    \/ Next
    \/ \E p \in Producers, l \in Lines : irq_sim_fire_unregistered(p, l)

StraySpec == Init /\ [][StrayNext]_vars

\* The simulator with its lines being configured: the consumer maps, masks,
\* unmasks and sets the trigger type of lines, producers fire them and the
\* drain delivers them.
TypeNext ==
    \/ \E l \in Lines : irq_sim_domain_map(l)
    \/ \E l \in Lines : irq_sim_irqmask(l)
    \/ \E l \in Lines : irq_sim_irqunmask(l)
    \/ \E l \in Lines, type \in TriggerTypes : irq_sim_set_type(l, type)
    \/ irq_sim_set_type_return
    \/ \E p \in Producers, l \in Lines : irq_sim_fire_check(p, l)
    \/ \E p \in Producers : irq_sim_fire_set(p)
    \/ \E p \in Producers : irq_sim_fire_queue(p)
    \/ Drain

TypeSpec == Init /\ [][TypeNext]_vars

\* The queued work is run and runs to its end, a fire call that has begun runs
\* to its end, and a teardown that has begun runs to its end.  Nothing forces
\* a new fire, a mask, an unmask or the teardown to begin.
FairSpec ==
    /\ Spec
    /\ WF_vars(Drain)
    /\ \A p \in Producers : WF_vars(irq_sim_fire_set(p) \/ irq_sim_fire_queue(p))
    /\ WF_vars(Teardown)

\* ----------------------------------------------------------- constructors
\* Before the constructor is called: nothing is allocated, nothing returned.
NotConstructed ==
    /\ num_irqs = 0
    /\ new_pc = "idle"
    /\ got_sim = "no"
    /\ got_bitmap = "no"
    /\ got_domain = "no"
    /\ new_ret = "none"
    /\ devm_pc = "off"
    /\ dr_mem = "no"
    /\ dr_sim = "none"
    /\ devres = {}
    /\ devm_ret = "none"
    /\ free_calls = 0

NewInit == Fresh /\ NotConstructed

\* The caller calls irq_sim_new(n).
irq_sim_new_call(n) ==
    /\ new_pc = "idle"
    /\ devm_pc = "off"
    /\ num_irqs' = n
    /\ new_pc' = "kmalloc"
    /\ UNCHANGED <<got_sim, got_bitmap, got_domain, new_ret, devm_pc, dr_mem,
                   dr_sim, devres, devm_ret, free_calls, prog, hist, ctx_mem,
                   cfg>>

\* lines 131-133: sim = kmalloc(); a NULL result is returned as -ENOMEM.
irq_sim_new_kmalloc ==
    /\ new_pc = "kmalloc"
    /\ \/ /\ got_sim' = "held"
          /\ new_pc' = "bitmap_zalloc"
          /\ UNCHANGED new_ret
       \/ /\ new_ret' = "ENOMEM"
          /\ new_pc' = "done"
          /\ UNCHANGED got_sim
    /\ UNCHANGED <<num_irqs, got_bitmap, got_domain, devm_pc, dr_mem, dr_sim,
                   devres, devm_ret, free_calls, prog, hist, ctx_mem, cfg>>

\* An allocation of `size` units may fail when size > 0; for size 0 the
\* allocator hands out its non-NULL zero-size token and cannot fail.
MayFail(size) == size > 0

\* lines 135-139: bitmap_zalloc(num_irqs); on NULL, kfree(sim) and -ENOMEM.
irq_sim_new_bitmap_zalloc ==
    /\ new_pc = "bitmap_zalloc"
    /\ \/ /\ got_bitmap' = "held"
          /\ new_pc' = "domain_create"
          /\ UNCHANGED <<got_sim, new_ret>>
       \/ /\ MayFail(num_irqs)
          /\ got_sim' = "released"
          /\ new_ret' = "ENOMEM"
          /\ new_pc' = "done"
          /\ UNCHANGED got_bitmap
    /\ UNCHANGED <<num_irqs, got_domain, devm_pc, dr_mem, dr_sim, devres,
                   devm_ret, free_calls, prog, hist, ctx_mem, cfg>>

\* lines 141-144: irq_domain_create_linear(); on NULL, -ENOMEM is returned as
\* it is, the bitmap and the simulator stay allocated.
irq_sim_new_domain_create ==
    /\ new_pc = "domain_create"
    /\ \/ /\ got_domain' = "held"
          /\ new_pc' = "init"
          /\ UNCHANGED new_ret
       \/ /\ new_ret' = "ENOMEM"
          /\ new_pc' = "done"
          /\ UNCHANGED got_domain
    /\ UNCHANGED <<num_irqs, got_sim, got_bitmap, devm_pc, dr_mem, dr_sim,
                   devres, devm_ret, free_calls, prog, hist, ctx_mem, cfg>>

\* lines 146-149: init_irq_work(), irq_count = num_irqs, return sim.
irq_sim_new_init ==
    /\ new_pc = "init"
    /\ new_ret' = "sim"
    /\ new_pc' = "done"
    /\ UNCHANGED <<num_irqs, got_sim, got_bitmap, got_domain, devm_pc, dr_mem,
                   dr_sim, devres, devm_ret, free_calls, prog, hist, ctx_mem,
                   cfg>>

\* The consumer of a simulator made by irq_sim_new() calls irq_sim_free().
irq_sim_free_call ==
    /\ devm_pc = "off"
    /\ new_pc = "done"
    /\ new_ret = "sim"
    /\ free_calls = 0
    /\ free_calls' = free_calls + 1
    /\ UNCHANGED <<num_irqs, new_pc, got_sim, got_bitmap, got_domain, new_ret,
                   devm_pc, dr_mem, dr_sim, devres, devm_ret, prog, hist,
                   ctx_mem, cfg>>

\* The caller calls devm_irq_sim_new(dev, n).
devm_irq_sim_new_call(n) ==
    /\ new_pc = "idle"
    /\ devm_pc = "off"
    /\ num_irqs' = n
    /\ devm_pc' = "devres_alloc"
    /\ UNCHANGED <<new_pc, got_sim, got_bitmap, got_domain, new_ret, dr_mem,
                   dr_sim, devres, devm_ret, free_calls, prog, hist, ctx_mem,
                   cfg>>

\* lines 196-198: dr = devres_alloc(); a NULL result is returned as -ENOMEM.
\* Otherwise line 200 calls irq_sim_new(num_irqs).
devm_irq_sim_new_devres_alloc ==
    /\ devm_pc = "devres_alloc"
    /\ \/ /\ dr_mem' = "held"
          /\ devm_pc' = "irq_sim_new"
          /\ new_pc' = "kmalloc"
          /\ UNCHANGED devm_ret
       \/ /\ devm_ret' = "ENOMEM"
          /\ devm_pc' = "done"
          /\ UNCHANGED <<dr_mem, new_pc>>
    /\ UNCHANGED <<num_irqs, got_sim, got_bitmap, got_domain, new_ret, dr_sim,
                   devres, free_calls, prog, hist, ctx_mem, cfg>>

\* line 200: dr->sim = irq_sim_new(num_irqs), once that call has returned.
devm_irq_sim_new_store ==
    /\ devm_pc = "irq_sim_new"
    /\ new_pc = "done"
    /\ dr_sim' = new_ret
    /\ devm_pc' = "is_err"
    /\ UNCHANGED <<num_irqs, new_pc, got_sim, got_bitmap, got_domain, new_ret,
                   dr_mem, devres, devm_ret, free_calls, prog, hist, ctx_mem,
                   cfg>>

\* line 201: if (IS_ERR(dr->sim))
devm_irq_sim_new_is_err ==
    /\ devm_pc = "is_err"
    /\ devm_pc' = IF dr_sim = "ENOMEM" THEN "devres_free" ELSE "devres_add"
    /\ UNCHANGED <<num_irqs, new_pc, got_sim, got_bitmap, got_domain, new_ret,
                   dr_mem, dr_sim, devres, devm_ret, free_calls, prog, hist,
                   ctx_mem, cfg>>

\* line 202: devres_free(dr)
devm_irq_sim_new_devres_free ==
    /\ devm_pc = "devres_free"
    /\ dr_mem' = "released"
    /\ devm_pc' = "return_err"
    /\ UNCHANGED <<num_irqs, new_pc, got_sim, got_bitmap, got_domain, new_ret,
                   dr_sim, devres, devm_ret, free_calls, prog, hist, ctx_mem,
                   cfg>>

\* line 206: devres_add(dev, dr)
devm_irq_sim_new_devres_add ==
    /\ devm_pc = "devres_add"
    /\ devres' = devres \cup {"devm_irq_sim_release"}
    /\ devm_pc' = "return_sim"
    /\ UNCHANGED <<num_irqs, new_pc, got_sim, got_bitmap, got_domain, new_ret,
                   dr_mem, dr_sim, devm_ret, free_calls, prog, hist, ctx_mem,
                   cfg>>

\* What a read of a field of a struct yields: the stored value while the
\* struct is allocated; once it was freed, the stale value or whatever the
\* allocator or a new owner of the memory has written there.
ReadField(mem, value) ==
    IF mem = "held" THEN {value} ELSE {value, "garbage"}

\* line 203: return dr->sim, after the devres_free(dr) of line 202.
devm_irq_sim_new_return_err ==
    /\ devm_pc = "return_err"
    /\ devm_ret' \in ReadField(dr_mem, dr_sim)
    /\ devm_pc' = "done"
    /\ UNCHANGED <<num_irqs, new_pc, got_sim, got_bitmap, got_domain, new_ret,
                   dr_mem, dr_sim, devres, free_calls, prog, hist, ctx_mem,
                   cfg>>

\* line 208: return dr->sim.
devm_irq_sim_new_return_sim ==
    /\ devm_pc = "return_sim"
    /\ devm_ret' \in ReadField(dr_mem, dr_sim)
    /\ devm_pc' = "done"
    /\ UNCHANGED <<num_irqs, new_pc, got_sim, got_bitmap, got_domain, new_ret,
                   dr_mem, dr_sim, devres, free_calls, prog, hist, ctx_mem,
                   cfg>>

\* The device's resources are released: every registered release action is
\* taken off the device's list and called once, then its record is freed.
\* devm_irq_sim_release(), lines 176-181, calls irq_sim_free(this->sim).
devm_irq_sim_release ==
    /\ devm_pc = "done"
    /\ "devm_irq_sim_release" \in devres
    /\ devres' = devres \ {"devm_irq_sim_release"}
    /\ free_calls' = free_calls + 1
    /\ dr_mem' = "released"
    /\ UNCHANGED <<num_irqs, new_pc, got_sim, got_bitmap, got_domain, new_ret,
                   dr_sim, devm_pc, devm_ret, prog, hist, ctx_mem, cfg>>

NewNext ==
    \/ \E n \in 0 .. NumIrqs : irq_sim_new_call(n)
    \/ irq_sim_new_kmalloc
    \/ irq_sim_new_bitmap_zalloc
    \/ irq_sim_new_domain_create
    \/ irq_sim_new_init
    \/ irq_sim_free_call
    \/ \E n \in 0 .. NumIrqs : devm_irq_sim_new_call(n)
    \/ devm_irq_sim_new_devres_alloc
    \/ devm_irq_sim_new_store
    \/ devm_irq_sim_new_is_err
    \/ devm_irq_sim_new_devres_free
    \/ devm_irq_sim_new_devres_add
    \/ devm_irq_sim_new_return_err
    \/ devm_irq_sim_new_return_sim
    \/ devm_irq_sim_release

NewSpec == NewInit /\ [][NewNext]_vars

\* ---------------------------------------------------------------- claims
AllIdle == \A p \in Producers : fpc[p] = "idle"

\* The drain has cleared line l's bit and has not yet delivered it.
InFlight(l) == IF hpc \in {"map", "handle"} /\ offset = l THEN 1 ELSE 0
Pend(l) == IF l \in pending THEN 1 ELSE 0

\* C1 (as claimed): every irq_sim_fire() that found its line enabled is followed
\* by a delivery for that line, as long as the simulator is not torn down, also
\* when the fire lands while a drain is running and whatever the line's offset
\* is relative to the lines the drain has already delivered.
C1_NoFiredLineLost ==
    \A l \in Lines, n \in 0 .. MaxFires :
        ((\E p \in Producers : fpc[p] = "set" /\ fline[p] = l)
            /\ delivered[l] = n /\ Alive)
        ~> (delivered[l] > n \/ ~Alive)

\* C2: when no set_bit() lands while the drain is in its loop, the drain's
\* deliveries are exactly the lines latched by fires that found them enabled,
\* each once, in ascending offset order.
C2_DrainDeliversFiredSetAscending ==
    (hpc = "ret" /\ Alive /\ ~fireInDrain) => drainLog = SortedSeq(batch)

\* C2 witness: a drain with no fire during it has delivered two lines.
C2_Witness ==
    hpc = "ret" /\ Alive /\ ~fireInDrain /\ Len(drainLog) = 2 /\ calls = 2

\* C3 (as claimed): the offset an iteration of the drain loop picks is the
\* minimum of the pending set at the moment it picks it.
C3_TakesLowestPending ==
    [][(hpc = "find" /\ hpc' = "clear")
          => (pending # {} /\ offset' = Min(pending))]_vars

\* C4 (as claimed): with finitely many fires, a drain that has entered its loop
\* eventually leaves it (during the simulator's life), and the pending set is
\* empty at the moment it leaves.
C4_DrainTerminates ==
    /\ (InLoop /\ Alive) ~> (hpc = "ret" \/ ~Alive)
    /\ [][(hpc = "check" /\ hpc' = "ret") => pending = {}]_vars

\* irq_work_sync() has returned in irq_sim_free().
SyncDone == free_pc \in {"bitmap_free", "kfree", "done"}

\* C5 (as claimed): irq_sim_free() deregisters a line, and removes the domain,
\* only after its wait for the queued or running drain has completed.
C5_SyncBeforeDeregister ==
    [][(mapped' # mapped /\ ~Alive) \/ (DomainRemoved' /\ ~DomainRemoved)
          => SyncDone]_vars

\* A step of the drain is about to read something irq_sim_free() has released:
\* the bitmap or the simulator, the domain, or the registration of its line.
UseAfterRelease ==
    \/ hpc \in {"check", "find", "clear"} /\ BitmapFreed
    \/ hpc = "map" /\ DomainRemoved
    \/ hpc = "map" /\ offset \in Lines /\ ~Alive /\ free_i > offset
    \/ hpc = "handle" /\ irqnum # 0 /\ (irqnum - 1) \notin mapped

\* C6 (as claimed): irq_sim_free(), called after every fire has returned, does
\* not return while a drain is queued or running, and no step of a drain reads
\* the bitmap, the domain or a line registration after the teardown released it.
C6_NoDrainAfterRelease ==
    /\ free_pc = "done" => (hpc = "idle" /\ "PENDING" \notin work_flags)
    /\ ~UseAfterRelease

\* C7: the pending bit is a latch: however many fires set it before the drain
\* takes it, one rise of the bit accounts for exactly one delivery (made, in
\* flight, or still owed by the set bit).
C7_IdempotentLatch ==
    Alive => \A l \in Lines : delivered[l] + InFlight(l) + Pend(l) = rises[l]

\* C7 witness: a line fired twice before the drain took it, delivered once.
C7_Witness ==
    \E l \in Lines :
        /\ seen[l] >= 2 /\ rises[l] = 1 /\ delivered[l] = 1
        /\ AllIdle /\ Alive /\ hpc = "idle" /\ pending = {}

Ascending(log) ==
    \A i, j \in 1 .. Len(log) : i < j => log[i] < log[j]
NonDecreasing(log) ==
    \A i, j \in 1 .. Len(log) : i < j => log[i] <= log[j]

\* C8 (as claimed): within one drain the offsets delivered are strictly
\* ascending.
C8_StrictlyAscending == Ascending(drainLog)

\* C8 (amended): within one drain the offsets delivered never decrease (a line
\* fired again during the drain may be delivered again by it), and of two lines
\* L1 < L2 both pending when the drain starts, L1 is delivered before L2.
C8_NonDecreasing ==
    /\ NonDecreasing(drainLog)
    /\ Alive =>
         \A L1, L2 \in batch :
            \A j \in 1 .. Len(drainLog) :
               (L1 < L2 /\ drainLog[j] = L2)
                  => \E i \in 1 .. (j - 1) : drainLog[i] = L1

\* C8 witness: lines 0 and 1 were both pending when the drain started and were
\* delivered in that order.
C8_Witness == batch = {0, 1} /\ drainLog = <<0, 1>> /\ Alive

\* C9: a line is created masked, and a line that was never unmasked is never
\* found enabled by a fire, never pending and never delivered.
C9_MaskedNeverDelivered ==
    \A l \in Lines \ everUnmasked :
        /\ ~enabled[l]
        /\ seen[l] = 0
        /\ l \notin pending
        /\ delivered[l] = 0

\* C9 witness: every allowed fire was made, all on lines never unmasked, and
\* nothing was latched or delivered.
C9_Witness ==
    /\ everUnmasked = {} /\ calls = MaxFires /\ AllIdle
    /\ pending = {} /\ work_flags = {}
    /\ \A l \in Lines : delivered[l] = 0

\* C10: when a drain completes (its emptiness check succeeds), every line that
\* was fired exactly once while enabled, and whose set_bit() has been done, has
\* been delivered exactly once and its pending bit is clear.
C10_SingleFireSingleDelivery ==
    [][(hpc = "check" /\ hpc' = "ret" /\ Alive)
          => \A l \in Lines :
                (seen[l] = 1 /\ ~(\E p \in Producers :
                                     fpc[p] = "set" /\ fline[p] = l))
                   => (delivered'[l] = 1 /\ l \notin pending')]_vars

\* C10 witness: one fire of an enabled line, a completed drain, one delivery.
C10_Witness ==
    /\ hpc = "ret" /\ Alive /\ calls = 1 /\ pending = {}
    /\ \E l \in Lines : seen[l] = 1 /\ delivered[l] = 1 /\ drainLog = <<l>>

\* C11: the mask is looked at only by the fire: masking a line never withdraws
\* its pending bit, and the drain delivers a line it has taken also when the
\* line's enabled flag is false by then.
C11_MaskCheckedOnlyAtFire ==
    /\ [][(\E l \in Lines : enabled[l] /\ ~enabled'[l])
             => pending' = pending]_vars
    /\ [][(hpc = "handle" /\ hpc' # "handle" /\ Alive
              /\ offset \in Lines /\ ~enabled[offset])
             => delivered'[offset] = delivered[offset] + 1]_vars

\* C11 witness: the running drain has delivered a line that was masked at the
\* moment of its delivery.
C11_Witness ==
    /\ lateMasked /\ Alive /\ hpc = "check"
    /\ \E i \in 1 .. Len(drainLog) : drainLog[i] \in everUnmasked

\* C12: at most one run of the drain is queued at any time, a run is queued
\* exactly while the work is pending, and the run that begins is the only one
\* that was queued, however many fires asked for it.
C12_SchedulingCoalesces ==
    /\ [](queued <= 1 /\ (queued = 1 <=> "PENDING" \in work_flags))
    /\ [][(hpc = "idle" /\ hpc' = "check")
             => (queued = 1 /\ queued' = 0)]_vars

\* C12 witness: two fires have latched and queued before any drain began, and
\* one run is queued.
C12_Witness ==
    /\ AllIdle /\ Alive /\ hpc = "idle" /\ queued = 1
    /\ ~spurious /\ ~oopsed
    /\ \A l \in Lines : delivered[l] = 0
    /\ \E l1, l2 \in Lines :
          \/ seen[l1] >= 2
          \/ l1 # l2 /\ seen[l1] >= 1 /\ seen[l2] >= 1

\* C13: a run of the drain begins only when no run is executing, and a request
\* made while a run executes is still pending, as the one queued run, when that
\* run returns.
C13_DrainNotReentrant ==
    /\ [][("PENDING" \in work_flags /\ "PENDING" \notin work_flags')
             => (hpc = "idle" /\ hpc' = "check")]_vars
    /\ [][(hpc = "ret" /\ hpc' = "idle" /\ "PENDING" \in work_flags)
             => ("PENDING" \in work_flags' /\ queued' = 1)]_vars

\* C13 witness: a fire has queued the work while the drain is in its loop.
C13_Witness == InLoop /\ "PENDING" \in work_flags /\ AllIdle /\ Alive

\* C14: every bit set in the pending bitmap is below irq_count.
C14_PendingWithinLineCount == \A b \in pending : b >= 0 /\ b < NumIrqs

\* C14 witness: the bit of the highest line is set.
C14_Witness == (NumIrqs - 1) \in pending /\ Alive

\* C15 (as claimed): irq_sim_set_type() succeeds exactly when the type is
\* rising (1), falling (2) or both (3), and returns -EINVAL for every other
\* value, the zero type IRQ_TYPE_NONE included.
C15_OnlyEdgeTypesAccepted ==
    st # <<>> => (st[2] = "OK" <=> st[1] \in 1 .. IRQ_TYPE_EDGE_BOTH)

\* C16: a call of irq_sim_set_type() changes nothing but the trigger type of
\* its line: when it returns -EINVAL the stored types are all as before, when
\* it succeeds the type stored for the line is the one requested, and in both
\* cases the lines' enabled flags, the pending bitmap, the work and every
\* call in progress are untouched.
C16_SetTypeFrame ==
    [][(st = <<>> /\ st' # <<>>)
          => /\ UNCHANGED <<prog, hist, ctx_mem, ctor>>
             /\ st'[2] = "EINVAL" => trigger_type' = trigger_type
             /\ st'[2] = "OK" =>
                   \E l \in mapped :
                      trigger_type' = [trigger_type EXCEPT ![l] = st'[1]]]_vars

\* C16 witness: a call was rejected for a line that had been given the type
\* `both` before, while a fired line was pending.
C16_Witness ==
    /\ st # <<>> /\ st[2] = "EINVAL" /\ pending # {}
    /\ \E l \in mapped : trigger_type[l] = IRQ_TYPE_EDGE_BOTH

\* C17 (as claimed): when irq_sim_new() returns an error, whichever step
\* failed, nothing it allocated before the failure is still allocated.
C17_FailedCreateRolledBack ==
    (new_pc = "done" /\ new_ret = "ENOMEM")
       => (got_sim # "held" /\ got_bitmap # "held" /\ got_domain # "held")

\* C18 (as claimed): irq_sim_new(0) returns an error.
C18_ZeroLinesRejected ==
    (new_pc = "done" /\ num_irqs = 0) => new_ret = "ENOMEM"

\* C19: once irq_sim_free() has returned no line has a mapping, the context of
\* every line that was mapped has been freed, none twice, and the bitmap and
\* the simulator are freed; before that, a line has a live context exactly
\* while it is mapped.
C19_DestroyLeavesNothing ==
    /\ \A l \in Lines :
          /\ ctx_mem[l] # "double_free"
          /\ l \in mapped <=> ctx_mem[l] = "live"
    /\ free_pc = "done" =>
          /\ mapped = {}
          /\ \A l \in Lines : ctx_mem[l] \in {"none", "freed"}
          /\ BitmapFreed /\ SimFreed

\* C19 witness: every line was mapped, and irq_sim_free() has returned.
C19_Witness ==
    free_pc = "done" /\ \A l \in Lines : ctx_mem[l] = "freed"

\* C20 (as claimed): after devm_irq_sim_new() has returned: if the simulator
\* was created, irq_sim_free() is called for it once, when the device's
\* resources are released, and not before; if its creation failed, no release
\* action is registered, the devres record is freed and the value returned is
\* the error of irq_sim_new().
C20_ManagedLifetime ==
    devm_pc = "done" =>
       /\ new_ret = "sim" =>
             /\ devm_ret = "sim"
             /\ free_calls = (IF devres = {} THEN 1 ELSE 0)
       /\ new_ret = "ENOMEM" =>
             /\ devres = {}
             /\ dr_mem = "released"
             /\ free_calls = 0
             /\ devm_ret = new_ret

\* C21 (as claimed): once irq_sim_free() has been entered, the handler is
\* invoked for no line of the simulator.
C21_NoDeliverOnceDestroyBegun == [][~Alive => delivered' = delivered]_vars

\* C21 (amended): a drain that is queued or running when irq_sim_free() is
\* entered goes on and may deliver lines; once the irq_work_sync() of
\* irq_sim_free() has returned no drain is queued or running, and no handler
\* is invoked from then on.
C21_NoDeliverAfterSync ==
    /\ [](SyncDone => (hpc = "idle" /\ "PENDING" \notin work_flags))
    /\ [][SyncDone => (delivered' = delivered /\ spurious' = spurious)]_vars

\* C21 witness: irq_sim_free() has returned, and a line was delivered after it
\* had been entered.
C21_Witness == free_pc = "done" /\ lateDeliv

\* C22 (as claimed): irq_sim_fire() on a virq that is not mapped returns to
\* its caller, reporting the handle as not found, without dereferencing a
\* line context and without a set_bit() or irq_work_queue().
C22_StrayFireIsNotFound ==
    \A p \in Producers : fpc[p] \notin {"oops", "stray"}

\* C23 (as claimed): during the simulator's life, the offset an iteration of
\* the drain clears is below irq_count and is a set bit of the bitmap, and the
\* virq it hands to the handler is that of a line (never 0, "no mapping").
C23_DrainTakesOnlyPendingLines ==
    Alive =>
       /\ hpc = "clear" => (offset < NumIrqs /\ offset \in pending)
       /\ hpc = "handle" => irqnum # 0

\* What the work, the drain and the teardown are at.
dispatch == <<work_flags, hpc, offset, irqnum, free_pc, free_i>>

\* C24: a step of an irq_sim_fire() call leaves every enabled flag, every
\* trigger type and the registry as they are.  The call goes on to its latch
\* only if it read the line's flag as true; a call that read false returns at
\* once and changes nothing of the simulator.  The latch adds the bit of the
\* call's own line to the bitmap and touches no other bit; the last step
\* changes the work's flags only, by queueing it.
C24_FireFrame ==
    [][(fpc' # fpc \/ calls' # calls)
          => /\ UNCHANGED <<mapped, enabled, trigger_type, ctx_mem>>
             /\ UNCHANGED <<hpc, offset, irqnum, free_pc, free_i>>
             /\ \E p \in Producers :
                   /\ \A q \in Producers \ {p} : fpc'[q] = fpc[q]
                   /\ fpc[p] = "idle" =>
                         /\ UNCHANGED <<pending, work_flags>>
                         /\ fpc'[p] = "set" => enabled[fline'[p]]
                         /\ fpc'[p] \in {"set", "idle"}
                   /\ fpc[p] = "set" =>
                         /\ pending' = pending \cup {fline[p]}
                         /\ UNCHANGED work_flags
                   /\ fpc[p] = "queue" =>
                         /\ UNCHANGED pending
                         /\ work_flags' = irq_work_queue(work_flags)]_vars

\* C24 witness: a fire of a masked line has returned while another line was
\* pending and the work queued, and both are as the earlier fire left them.
C24_Witness ==
    /\ AllIdle /\ Alive /\ hpc = "idle" /\ calls = 2
    /\ "PENDING" \in work_flags
    /\ \E l1, l2 \in mapped :
          /\ l1 # l2 /\ pending = {l1}
          /\ seen[l1] = 1 /\ seen[l2] = 0 /\ ~enabled[l2]

\* C25: a step that changes a line's enabled flag changes the flag of one
\* mapped line only, and leaves the bitmap, the work, the drain, the calls of
\* irq_sim_fire() in progress and every trigger type as they are.
C25_MaskUnmaskFrame ==
    [][(enabled' # enabled)
          => /\ \E l \in mapped : enabled' = [enabled EXCEPT ![l] = ~@]
             /\ UNCHANGED <<mapped, pending, dispatch, fpc, fline, fobs>>
             /\ UNCHANGED <<trigger_type, ctx_mem, queued>>]_vars

\* C25 witness: a line was masked while its bit was pending, another line is
\* enabled, and the bit is still there.
C25_Witness ==
    /\ Alive /\ AllIdle
    /\ \E l1, l2 \in mapped :
          l1 # l2 /\ l1 \in pending /\ ~enabled[l1] /\ enabled[l2]

\* A drain is executing and has not yet made the bitmap_empty() test that
\* ends its loop.
DrainBeforeFinalCheck == hpc \in {"check", "find", "clear", "map", "handle"}

\* C26: while the simulator is alive, the bitmap is not empty and no call of
\* irq_sim_fire() stands between its set_bit() and its irq_work_queue(),
\* either the work is queued or a drain is executing that has yet to make the
\* test that ends its loop.
C26_NoLostWakeup ==
    (Alive /\ pending # {} /\ \A p \in Producers : fpc[p] # "queue")
       => ("PENDING" \in work_flags \/ DrainBeforeFinalCheck)

\* C26 witness: a call of irq_sim_fire() latched a line and queued the work
\* after the drain's last bitmap_empty() test and before the drain returned.
C26_Witness ==
    /\ Alive /\ AllIdle /\ hpc = "ret" /\ pending # {}

\* C27: the number of deliveries made for a line never exceeds the number of
\* irq_sim_fire() calls for it that read its enabled flag as true; a line no
\* such call was made for has no delivery.
C27_NoSpuriousDelivery ==
    \A l \in Lines : delivered[l] <= seen[l]

\* C27 witness: one line was fired twice while enabled and delivered twice,
\* the other was never fired while enabled and has no delivery.
C27_Witness ==
    \E l1, l2 \in Lines :
       /\ l1 # l2
       /\ seen[l1] = 2 /\ delivered[l1] = 2
       /\ seen[l2] = 0 /\ delivered[l2] = 0 /\ l2 \in mapped

\* C28: the drain clears a line's bit before it calls handle_simple_irq() for
\* the line, and a delivery is made only by that call.  So when, while the
\* simulator is alive, an irq_sim_fire() sets the bit of a line again between
\* the clear_bit() for it and the end of its handle_simple_irq(), the bit is
\* kept and the line is delivered once for the call in progress and once more
\* for the new latch.
C28_RefireDuringDeliveryIsLatched ==
    /\ [][(hpc = "clear" /\ hpc' = "map") => offset \notin pending']_vars
    /\ [][delivered' # delivered => (hpc = "handle" /\ hpc' = "check")]_vars
    /\ \A l \in Lines : \A n \in 0 .. MaxFires :
          (Alive /\ hpc \in {"map", "handle"} /\ offset = l
                 /\ l \in refired /\ l \in pending /\ delivered[l] = n)
             ~> (delivered[l] >= n + 2 \/ ~Alive)

\* C28 witness: in one drain a line was latched again during its own
\* delivery and then delivered a second time.
C28_Witness ==
    \E l \in Lines :
       /\ Alive /\ l \in refired
       /\ drainLog = <<l, l>> /\ delivered[l] = 2

\* C29 (as claimed): on the failure path of devm_irq_sim_new() the devres
\* record is still allocated whenever a field of it is about to be read, and
\* the value the function returns after devres_free() is the error that
\* irq_sim_new() returned.
C29_ErrorReturnedWithoutStaleRead ==
    /\ devm_pc \in {"is_err", "return_err", "return_sim"} => dr_mem = "held"
    /\ (devm_pc = "done" /\ dr_mem = "released" /\ dr_sim = "ENOMEM")
          => devm_ret = new_ret
====
